---- MODULE Spec2Model ----
(***************************************************************************)
(* Model of the PDF -> Q&A pipeline of Backend/app: the background job     *)
(* process_pdf (routers/pdf.py), the extraction step (PDFService), the     *)
(* generation loop (QAService.generate_qa_from_chunks), the provider       *)
(* (ModelProvider) and the HTTP handlers that read or change a job         *)
(* (upload, status, cancel, save_api_key).                                 *)
(*                                                                         *)
(* The store is the relational database (tables pdfs and qa_pairs).  The   *)
(* job and the handlers talk to it through separate SQLAlchemy sessions,   *)
(* so a step of the job is one stretch of code between two interactions    *)
(* with the store, and handlers may run between any two steps (the store   *)
(* is shared by every worker that serves the API).                         *)
(***************************************************************************)
EXTENDS Integers, Sequences, FiniteSets, TLC

(***************************************************************************)
(* Bounds of the model.                                                    *)
(***************************************************************************)
MaxChunks == 2      \* longest chunk sequence the chunker returns
MaxPairs == 2       \* longest JSON array in a provider reply
DocPages == 2       \* number of pages PyPDF2 finds in the uploaded file
MaxText == 4        \* longest text given to a chunker, in characters
MaxTokens == 5      \* most tokens of a text made of one-letter words
MaxWindow == 3      \* largest max_tokens given to chunk_by_size

Docs == {"pdf1"}    \* identifiers handed out by save_pdf

\* heading of the k-th chunk of the documents considered
HeadingOf(k) == IF k = 1 THEN "Introduction" ELSE "# Section " \o ToString(k - 1)

(***************************************************************************)
(* Sequences over S of length at most n.                                   *)
(***************************************************************************)
SeqUpTo(S, n) == UNION {[1..k -> S] : k \in 0..n}

(***************************************************************************)
(* PDF.status is a free-text column.  The fixed strings are modelled by    *)
(* their text, f"analyzing_chunk_{i+1}_of_{total_chunks}" by its prefix    *)
(* and its two numbers.                                                    *)
(***************************************************************************)
Plain(s) == [tag |-> s, current |-> 0, total |-> 0]

AnalyzingChunk(cur, tot) == [tag |-> "analyzing_chunk", current |-> cur, total |-> tot]

Uploaded == Plain("uploaded")
Processing == Plain("processing")
Completed == Plain("completed")
Failed == Plain("failed")
Canceled == Plain("canceled")

Terminal == {Completed, Failed, Canceled}

\* the statuses cancel_pdf_processing accepts
Cancelable == {Plain("processing"), Plain("uploaded"), Plain("extracting"), Plain("analyzing")}

CancelError == "Processing was canceled by the user"
ApiKeyError == "ANTHROPIC_API_KEY not set in environment"

\* the row save_pdf inserts (column defaults of models/pdf.py)
NewPdf == [status |-> Uploaded, progress |-> 0, error |-> "", page_count |-> 0]

\* a session's view of the PDF object: expired (after a commit) or loaded
Expired == [loaded |-> FALSE, status |-> Plain(""), page_dirty |-> FALSE]

NoCancel == [at |-> Plain("none"), code |-> 0]

\* what chunk_text returns for the documents considered: each chunk is
\* represented by its heading
ChunkSeqs == {[k \in 1..n |-> HeadingOf(k)] : n \in 0..MaxChunks}

\* variants of the progress formula: scaled by the chunks done after this
\* one, and without the base of 50
ChunkProgressThrough(i, total) == 50 + (((i + 1) * 50) \div total)

ChunkProgressNoBase(i, total) == (i * 40) \div total

\* progress = 50 + int((i / total_chunks) * 40)
ChunkProgress(i, total) == 50 + ((i * 40) \div total)

\* str(e) of what the try block of extract_text can raise, by the place it is
\* raised at: text extraction, the page count, the write of the result file
ExtractStages == {"text", "pages", "store"}

ExtractMsg(stage) ==
    CASE stage = "text" -> "No /Root object! - Is this really a PDF?"
      [] stage = "pages" -> "EOF marker not found"
      [] stage = "store" -> "[Errno 28] No space left on device"

\* str() of HTTPException(500, detail): "" or "500: <detail>", by the Starlette version
HttpExceptionStr(detail) == {"", "500: " \o detail}

\* the keys a client may post, and those of them that start with "sk-"
PostedKeys == {"sk-live", "live"}
SkKeys == {"sk-live"}

\* KeyError raised by qa["question"] / qa["answer"]
KeyErrorMsg(key) == "'" \o key \o "'"

(***************************************************************************)
(* What a backend answers to one HTTP request.  kind is the transport's    *)
(* outcome; for kind "ok" the raw text the model wrote (the text block of  *)
(* the hosted API, the `response` field of the local one) is a JSON value, *)
(* possibly with prose around it:                                          *)
(*   none    - no JSON at all, and no bracket                              *)
(*   object  - a JSON object such as {"question": "Q"} (no bracket)        *)
(*   scalars - a non-empty JSON array whose items are not objects          *)
(*   array   - a JSON array of objects, `items`                            *)
(* A key an object does not carry is Absent.                               *)
(***************************************************************************)
Absent == "<absent>"

PairObjs ==
    { [question |-> "Q", answer |-> "A", type |-> "factual", section |-> Absent],
      [question |-> "Q", answer |-> "A", type |-> "factual", section |-> "Model section"],
      [question |-> Absent, answer |-> "A", type |-> "factual", section |-> Absent],
      [question |-> "Q", answer |-> Absent, type |-> Absent, section |-> Absent] }

JsonValues ==
    { [tag |-> t, items |-> <<>>] : t \in {"none", "object", "scalars"} }
      \cup { [tag |-> "array", items |-> it] : it \in SeqUpTo(PairObjs, MaxPairs) }

Replies ==
    { [kind |-> k, prose |-> FALSE, json |-> [tag |-> "none", items |-> <<>>]] :
          k \in {"transport_error", "http_error"} }
      \cup { [kind |-> "ok", prose |-> p, json |-> j] : p \in BOOLEAN, j \in JsonValues }

\* the case a reply falls in: how the request ended, the shape of the JSON,
\* whether every object of the array carries a question and an answer, and
\* whether one of them carries a section of its own
ReplyCase(reply) ==
    [kind |-> reply.kind, tag |-> reply.json.tag,
     complete |-> \A k \in 1..Len(reply.json.items) :
                     reply.json.items[k].question # Absent /\ reply.json.items[k].answer # Absent,
     sectioned |-> \E k \in 1..Len(reply.json.items) : reply.json.items[k].section # Absent]

\* str(e) of the exceptions caught by the two backends
TransportMsg == "All connection attempts failed"
HttpStatusMsg == "Server error '500 Internal Server Error'"
JsonDecodeMsg == "Expecting value: line 1 column 1 (char 0)"
ItemAssignMsg == "object does not support item assignment"
NoJsonMsg == "Could not find valid JSON in response"

\* the pair both backends return from their except branch
DegradedPair(msg, heading) ==
    [question |-> "Error generating Q&A", answer |-> "API error: " \o msg,
     type |-> "error", section |-> heading]

\* variant: a section the model wrote is kept
StampMissing(items, heading) ==
    [k \in 1..Len(items) |->
        IF items[k].section = Absent THEN [items[k] EXCEPT !.section = heading]
        ELSE items[k]]

\* for pair in qa_pairs: pair["section"] = section_heading
Stamp(items, heading) ==
    [k \in 1..Len(items) |-> [items[k] EXCEPT !.section = heading]]

(***************************************************************************)
(* The try block of a backend, after the request was sent: the exception   *)
(* message it ends with ("" when it returns) and the list it returns.      *)
(* json.loads of the hosted backend reads the whole text; the local        *)
(* backend cuts the span from the first "[" to the last "]" first.         *)
(***************************************************************************)
ClaudeTry(reply, heading) ==
    IF reply.kind = "transport_error" THEN [exc |-> TransportMsg, pairs |-> <<>>]
    ELSE IF reply.kind = "http_error" THEN [exc |-> HttpStatusMsg, pairs |-> <<>>]
    ELSE IF reply.prose \/ reply.json.tag = "none" THEN [exc |-> JsonDecodeMsg, pairs |-> <<>>]
    ELSE IF reply.json.tag \in {"object", "scalars"} THEN [exc |-> ItemAssignMsg, pairs |-> <<>>]
    ELSE [exc |-> "", pairs |-> Stamp(reply.json.items, heading)]

OllamaTry(reply, heading) ==
    IF reply.kind = "transport_error" THEN [exc |-> TransportMsg, pairs |-> <<>>]
    ELSE IF reply.kind = "http_error" THEN [exc |-> HttpStatusMsg, pairs |-> <<>>]
    ELSE IF reply.json.tag \in {"none", "object"} THEN [exc |-> NoJsonMsg, pairs |-> <<>>]
    ELSE IF reply.json.tag = "scalars" THEN [exc |-> ItemAssignMsg, pairs |-> <<>>]
    ELSE [exc |-> "", pairs |-> Stamp(reply.json.items, heading)]

(***************************************************************************)
(* generate_qa_pairs and the two backends: raised carries the message of   *)
(* an exception that leaves the call, pairs the returned list.             *)
(***************************************************************************)
\* variant: the except branch returns an empty list
generate_with_claude_empty(key, reply, heading) ==
    IF key = "" THEN [raised |-> ApiKeyError, pairs |-> <<>>]
    ELSE [raised |-> "", pairs |-> ClaudeTry(reply, heading).pairs]

generate_with_claude(key, reply, heading) ==
    IF key = "" THEN [raised |-> ApiKeyError, pairs |-> <<>>]
    ELSE LET t == ClaudeTry(reply, heading)
         IN  IF t.exc # ""
             THEN [raised |-> "", pairs |-> <<DegradedPair(t.exc, heading)>>]
             ELSE [raised |-> "", pairs |-> t.pairs]

generate_with_ollama(reply, heading) ==
    LET t == OllamaTry(reply, heading)
    IN  IF t.exc # ""
        THEN [raised |-> "", pairs |-> <<DegradedPair(t.exc, heading)>>]
        ELSE [raised |-> "", pairs |-> t.pairs]

generate_qa_pairs(prov, key, reply, heading) ==
    IF prov = "claude" THEN generate_with_claude(key, reply, heading)
    ELSE IF prov = "ollama" THEN generate_with_ollama(reply, heading)
    ELSE [raised |-> "Unsupported provider: " \o prov, pairs |-> <<>>]

(***************************************************************************)
(* TextService.  A text is a sequence of characters.  The characters of    *)
(* the texts considered: a lower-case letter, an upper-case letter, "#",   *)
(* ".", a space and a newline.                                             *)
(***************************************************************************)
Chars == {"a", "A", "#", ".", " ", "\n"}

\* what str.split(), str.strip() and \s take for whitespace
IsSpace(c) == c \in {" ", "\n", "\t", "\r", "\f"}

Min(a, b) == IF a < b THEN a ELSE b

\* text[i:j] for 0 <= i, j (Python slice, 0-based, j exclusive)
Slice(t, i, j) == SubSeq(t, i + 1, Min(j, Len(t)))

\* str.strip()
Strip(t) ==
    IF \A k \in 1..Len(t) : IsSpace(t[k]) THEN <<>>
    ELSE LET first == CHOOSE k \in 1..Len(t) :
                         ~IsSpace(t[k]) /\ \A j \in 1..(k - 1) : IsSpace(t[j])
             last == CHOOSE k \in 1..Len(t) :
                         ~IsSpace(t[k]) /\ \A j \in (k + 1)..Len(t) : IsSpace(t[j])
         IN  SubSeq(t, first, last)

\* str.split(): the maximal runs of characters that are not whitespace;
\* cur is the run being read at position i
RECURSIVE SplitFrom(_, _, _)
SplitFrom(t, i, cur) ==
    IF i > Len(t) THEN (IF cur = <<>> THEN <<>> ELSE <<cur>>)
    ELSE IF IsSpace(t[i])
         THEN (IF cur = <<>> THEN <<>> ELSE <<cur>>) \o SplitFrom(t, i + 1, <<>>)
         ELSE SplitFrom(t, i + 1, Append(cur, t[i]))

Split(t) == SplitFrom(t, 1, <<>>)

\* str.split(sep) for a one-character separator: the pieces between the
\* separators, empty ones included
RECURSIVE SplitOnFrom(_, _, _, _)
SplitOnFrom(t, sep, i, cur) ==
    IF i > Len(t) THEN <<cur>>
    ELSE IF t[i] = sep THEN <<cur>> \o SplitOnFrom(t, sep, i + 1, <<>>)
    ELSE SplitOnFrom(t, sep, i + 1, Append(cur, t[i]))

SplitOn(t, sep) == SplitOnFrom(t, sep, 1, <<>>)

\* sep.join(parts)
RECURSIVE Join(_, _)
Join(parts, sep) ==
    IF parts = <<>> THEN <<>>
    ELSE IF Len(parts) = 1 THEN parts[1]
    ELSE parts[1] \o sep \o Join(Tail(parts), sep)

\* str.endswith((':', '.'))
EndsWithPunct(t) == t # <<>> /\ t[Len(t)] \in {":", "."}

\* range(start, stop, step) for step > 0
RECURSIVE Range(_, _, _)
Range(start, stop, step) ==
    IF start >= stop THEN <<>> ELSE <<start>> \o Range(start + step, stop, step)

(***************************************************************************)
(* chunk_by_size.  A chunk is [heading, content]; the synthetic heading    *)
(* f"Chunk {n}" is spelled with the number as its last character.          *)
(***************************************************************************)
DefaultMaxTokens == 1000
DefaultOverlap == 100
TitleLines == 5
TitleMinLen == 10
TitleMaxLen == 100

ChunkLabel(n) == <<"C", "h", "u", "n", "k", " ", ToString(n)>>

\* the first of the first five lines that is longer than 10 and shorter than
\* 100 characters and ends with ":" or "."; <<>> (None) if there is none
TitleLike(line) ==
    TitleMinLen < Len(line) /\ Len(line) < TitleMaxLen /\ EndsWithPunct(line)

PotentialTitle(chunk_text) ==
    LET lines == Slice(SplitOn(chunk_text, "\n"), 0, TitleLines)
        stripped == [k \in 1..Len(lines) |-> Strip(lines[k])]
    IN  IF \E k \in 1..Len(stripped) : TitleLike(stripped[k])
        THEN stripped[CHOOSE k \in 1..Len(stripped) :
                        TitleLike(stripped[k]) /\ \A j \in 1..(k - 1) : ~TitleLike(stripped[j])]
        ELSE <<>>

\* the loop of chunk_by_size over range(0, len(tokens), step)
SizeChunks(tokens, max_tokens, step) ==
    LET starts == Range(0, Len(tokens), step)
    IN  [k \in 1..Len(starts) |->
            LET chunk_text == Join(Slice(tokens, starts[k], starts[k] + max_tokens), <<" ">>)
                title == PotentialTitle(chunk_text)
            IN  [heading |-> IF title # <<>> THEN title ELSE ChunkLabel(k),
                 content |-> chunk_text]]

\* variant: the window advances by max_tokens
chunk_by_size_stride(t, max_tokens, overlap) == SizeChunks(Split(t), max_tokens, max_tokens)

chunk_by_size(t, max_tokens, overlap) == SizeChunks(Split(t), max_tokens, max_tokens - overlap)

(***************************************************************************)
(* chunk_by_paragraphs.  re.split(r'\n\s*\n', text): a separator starts at *)
(* a newline and, \s* being greedy, ends at the last newline of the run of *)
(* whitespace that follows it; the search goes on after the separator.     *)
(***************************************************************************)
DefaultMinLength == 200
ParaHeadingMaxLen == 100

Spaces == {" ", "\n", "\t", "\r", "\f"}

Max(S) == CHOOSE x \in S : \A y \in S : y <= x

\* length of the longest run of characters of S that starts at offset p of t
\* (offsets count from 0: the character at offset p is t[p + 1])
RunLen(t, p, S) ==
    Max({r \in 0..(Len(t) - p) : \A k \in 1..r : t[p + k] \in S})

\* the character at offset p, "" at the end of the text
At(t, p) == IF p < Len(t) THEN t[p + 1] ELSE ""

\* offset after the separator that starts at offset s, -1 if none does
SeparatorEnd(t, s) ==
    IF At(t, s) # "\n" THEN -1
    ELSE LET w == RunLen(t, s + 1, Spaces)
             nls == {e \in (s + 1)..(s + w) : At(t, e) = "\n"}
         IN  IF nls = {} THEN -1 ELSE Max(nls) + 1

RECURSIVE ParagraphsFrom(_, _, _)
ParagraphsFrom(t, s, start) ==
    IF s >= Len(t) THEN <<Slice(t, start, Len(t))>>
    ELSE IF SeparatorEnd(t, s) >= 0
         THEN <<Slice(t, start, s)>> \o ParagraphsFrom(t, SeparatorEnd(t, s), SeparatorEnd(t, s))
         ELSE ParagraphsFrom(t, s + 1, start)

Paragraphs(t) == ParagraphsFrom(t, 0, 0)

\* the loop over the paragraphs from the k-th on, and the final append
RECURSIVE ParagraphLoop(_, _, _, _, _)
ParagraphLoop(paras, k, current_chunk, current_heading, min_length) ==
    IF k > Len(paras)
    THEN IF current_chunk # <<>>
         THEN <<[heading |-> current_heading, content |-> Strip(current_chunk)]>>
         ELSE <<>>
    ELSE LET para == Strip(paras[k])
             grown == current_chunk \o para \o <<"\n", "\n">>
         IN  IF para = <<>>
             THEN ParagraphLoop(paras, k + 1, current_chunk, current_heading, min_length)
             ELSE IF Len(para) < ParaHeadingMaxLen /\ EndsWithPunct(para)
             THEN ParagraphLoop(paras, k + 1, <<>>, para, min_length)
             ELSE IF Len(grown) >= min_length
             THEN <<[heading |-> current_heading, content |-> Strip(grown)]>>
                      \o ParagraphLoop(paras, k + 1, <<>>, current_heading, min_length)
             ELSE ParagraphLoop(paras, k + 1, grown, current_heading, min_length)

chunk_by_paragraphs(t, min_length) ==
    ParagraphLoop(Paragraphs(t), 1, <<>>, <<"T", "e", "x", "t">>, min_length)

(***************************************************************************)
(* chunk_by_headings.  The three patterns are tried in their order at      *)
(* every offset from the end of the previous match on; each is matched as  *)
(* the backtracking matcher of re matches it (greedy +, * and lazy +?).    *)
(***************************************************************************)
Upper ==
    {"A", "B", "C", "D", "E", "F", "G", "H", "I", "J", "K", "L", "M", "N",
     "O", "P", "Q", "R", "S", "T", "U", "V", "W", "X", "Y", "Z"}

Lower ==
    {"a", "b", "c", "d", "e", "f", "g", "h", "i", "j", "k", "l", "m", "n",
     "o", "p", "q", "r", "s", "t", "u", "v", "w", "x", "y", "z"}

Digits == {"0", "1", "2", "3", "4", "5", "6", "7", "8", "9"}

\* what "." matches: every character but the newline
Dot == (Chars \cup Upper \cup Lower \cup Digits \cup Spaces \cup {":"}) \ {"\n"}

\* (?:\n|^): the offset after it, -1 if it does not match at offset s
LineStart(t, s) == IF At(t, s) = "\n" THEN s + 1 ELSE IF s = 0 THEN 0 ELSE -1

\* \s{minws,}(.+?)(?:\n|$) from offset q: the whitespace takes as much as it
\* can and gives back until a character other than a newline follows; the
\* title then runs to the next newline, which is consumed, or to the end.
\* The offset after the match, -1 if there is none.
TitleEnd(t, q, minws) ==
    LET w == RunLen(t, q, Spaces)
        ok == {v \in minws..w : At(t, q + v) \notin {"", "\n"}}
    IN  IF ok = {} THEN -1
        ELSE LET r == q + Max(ok)
                 m == r + RunLen(t, r, Dot)
             IN  IF m < Len(t) THEN m + 1 ELSE m

\* (?:\n|^)#+\s+(.+?)(?:\n|$)
MarkdownEnd(t, s) ==
    LET p == LineStart(t, s)
        h == IF p < 0 THEN 0 ELSE RunLen(t, p, {"#"})
    IN  IF h = 0 THEN -1 ELSE TitleEnd(t, p + h, 1)

StartsWith(t, p, word) ==
    /\ p + Len(word) <= Len(t)
    /\ \A k \in 1..Len(word) : t[p + k] = word[k]

\* (?:\n|^)(?:CHAPTER|Section)\s+\d+[.:]\s*(.+?)(?:\n|$)
SectionEnd(t, s) ==
    LET p == LineStart(t, s)
        named == /\ p >= 0
                 /\ \/ StartsWith(t, p, <<"C", "H", "A", "P", "T", "E", "R">>)
                    \/ StartsWith(t, p, <<"S", "e", "c", "t", "i", "o", "n">>)
        q == p + 7
        w == IF named THEN RunLen(t, q, Spaces) ELSE 0
        n == IF w > 0 THEN RunLen(t, q + w, Digits) ELSE 0
    IN  IF n > 0 /\ At(t, q + w + n) \in {".", ":"}
        THEN TitleEnd(t, q + w + n + 1, 0)
        ELSE -1

\* (?:\n|^)(?:[A-Z][A-Za-z\s]+)(?:\n|$): the class takes as much as it can
\* and gives back until a newline follows or the text ends
CapitalEnd(t, s) ==
    LET p == LineStart(t, s)
        c == IF p >= 0 /\ At(t, p) \in Upper
             THEN RunLen(t, p + 1, Upper \cup Lower \cup Spaces) ELSE 0
        ok == {v \in 1..c : At(t, p + 1 + v) \in {"", "\n"}}
    IN  IF ok = {} THEN -1
        ELSE IF p + 1 + Max(ok) = Len(t) THEN Len(t) ELSE p + 1 + Max(ok) + 1

MatchEnd(t, s) ==
    IF MarkdownEnd(t, s) >= 0 THEN MarkdownEnd(t, s)
    ELSE IF SectionEnd(t, s) >= 0 THEN SectionEnd(t, s)
    ELSE CapitalEnd(t, s)

\* re.finditer(combined_pattern, text) from offset pos on
RECURSIVE Headings(_, _)
Headings(t, pos) ==
    IF \A s \in pos..Len(t) : MatchEnd(t, s) < 0 THEN <<>>
    ELSE LET s == CHOOSE v \in pos..Len(t) :
                     MatchEnd(t, v) >= 0 /\ \A u \in pos..(v - 1) : MatchEnd(t, u) < 0
         IN  <<[start |-> s, end |-> MatchEnd(t, s)]>> \o Headings(t, MatchEnd(t, s))

Introduction == <<"I", "n", "t", "r", "o", "d", "u", "c", "t", "i", "o", "n">>

\* the loop over the matches from the k-th on, and the final append
RECURSIVE HeadingLoop(_, _, _, _, _)
HeadingLoop(t, ms, k, last_end, current_heading) ==
    IF k > Len(ms)
    THEN IF last_end < Len(t)
         THEN <<[heading |-> current_heading, content |-> Strip(Slice(t, last_end, Len(t)))]>>
         ELSE <<>>
    ELSE LET chunk_text == Strip(Slice(t, last_end, ms[k].start))
             before == IF ms[k].start > last_end /\ chunk_text # <<>>
                       THEN <<[heading |-> current_heading, content |-> chunk_text]>>
                       ELSE <<>>
         IN  before \o HeadingLoop(t, ms, k + 1, ms[k].end,
                                   Strip(Slice(t, ms[k].start, ms[k].end)))

\* variant: no heading is current before the first match
chunk_by_headings_unnamed(t) == HeadingLoop(t, Headings(t, 0), 1, 0, <<>>)

chunk_by_headings(t) == HeadingLoop(t, Headings(t, 0), 1, 0, Introduction)

chunk_text(t, strategy) ==
    IF strategy = "semantic" THEN chunk_by_headings(t)
    ELSE IF strategy = "fixed" THEN chunk_by_size(t, DefaultMaxTokens, DefaultOverlap)
    ELSE chunk_by_paragraphs(t, DefaultMinLength)

(***************************************************************************)
(* PDFService.extract_text, lines 65-72, and _extract_with_ocr.  pdfminer  *)
(* returns the text `primary`; pytesseract returns ocr[k] for the image of *)
(* page k.  The result is the text and the extractors that ran, in order.  *)
(***************************************************************************)
MinTextLength == 100

\* f"\n\n--- Page {n} ---\n\n", the number as one character
PageMarker(n) ==
    <<"\n", "\n", "-", "-", "-", " ", "P", "a", "g", "e", " ", ToString(n),
      " ", "-", "-", "-", "\n", "\n">>

\* the loop of _extract_with_ocr from page k on, text being what precedes
RECURSIVE OcrLoop(_, _, _)
OcrLoop(ocr, k, acc) ==
    IF k > Len(ocr) THEN acc
    ELSE OcrLoop(ocr, k + 1, acc \o PageMarker(k) \o ocr[k])

extract_with_ocr(ocr) == OcrLoop(ocr, 1, <<>>)

\* variant: a text of exactly the minimum length is taken for too short
extract_text_inclusive(primary, ocr) ==
    IF primary = <<>> \/ Len(Strip(primary)) <= MinTextLength
    THEN [text |-> extract_with_ocr(ocr), ran |-> <<"pdfminer", "ocr">>]
    ELSE [text |-> primary, ran |-> <<"pdfminer">>]

extract_text(primary, ocr) ==
    IF primary = <<>> \/ Len(Strip(primary)) < MinTextLength
    THEN [text |-> extract_with_ocr(ocr), ran |-> <<"pdfminer", "ocr">>]
    ELSE [text |-> primary, ran |-> <<"pdfminer">>]

VARIABLES
    pdfs,        \* table pdfs: id -> row, for the ids that exist
    qa_pairs,    \* table qa_pairs: per pdf_id, the committed rows in insertion order
    env_key,     \* os.environ["ANTHROPIC_API_KEY"] ("" when unset)
    provider,    \* ModelProvider.provider of the QAService
    pc,          \* position of process_pdf(d)
    sess,        \* the job's session: its PDF object (expired or loaded)
    chunks,      \* local `chunks` of process_pdf: the headings of the chunk sequence
    idx,         \* loop variable i of generate_qa_from_chunks
    result,      \* local `qa_pairs`: what generate_qa_pairs returned for chunk i
    pending,     \* QAPair objects added to the job's session and not yet committed
    exc,         \* message of the exception on its way to process_pdf's handler
    calls,       \* history: number of generate_qa_pairs calls made for d
    replies,     \* history: the case (ReplyCase) of the reply to each HTTP request of d
    returned,    \* history: the list generate_qa_pairs returned for each chunk
    lastCancel,  \* history: status read and answer given by the latest cancel request
                 \* for d, until the job of d takes its next step
    acceptedAt,  \* history: the statuses at which a cancel request of d was accepted
    text,        \* argument `text` of a direct call of a TextService method
    raw,         \* the reply handed to the two backends in a direct call
    pages,       \* what the OCR reads on each page, in a direct call of extract_text
    out          \* what the direct call returned

vars == <<pdfs, qa_pairs, env_key, provider, pc, sess, chunks, idx, result,
          pending, exc, calls, replies, returned, lastCancel, acceptedAt,
          text, raw, pages, out>>

\* the variables of the direct calls (no request and no task reads them)
callVars == <<text, raw, pages, out>>

jobVars == <<pc, sess, chunks, idx, result, pending, exc, calls, replies, returned>>

Providers == {"claude", "ollama"}

(***************************************************************************)
(* The state of a started server: empty tables, the API key loaded from    *)
(* the environment or the settings table if there is one                   *)
(* (load_api_key_to_env), a QAService built for one of the two providers   *)
(* ModelProvider knows (the router builds it with the default, claude).    *)
(* D is the set of identifiers save_pdf will hand out.                     *)
(***************************************************************************)
Started(D) ==
    /\ pdfs = <<>>
    /\ qa_pairs = [d \in D |-> <<>>]
    /\ env_key \in {"", "sk-live"}
    /\ provider \in Providers
    /\ pc = [d \in D |-> "none"]
    /\ sess = [d \in D |-> Expired]
    /\ chunks = [d \in D |-> <<>>]
    /\ idx = [d \in D |-> 0]
    /\ result = [d \in D |-> <<>>]
    /\ pending = [d \in D |-> <<>>]
    /\ exc = [d \in D |-> ""]
    /\ calls = [d \in D |-> 0]
    /\ replies = [d \in D |-> <<>>]
    /\ returned = [d \in D |-> <<>>]
    /\ lastCancel = [d \in D |-> NoCancel]
    /\ acceptedAt = [d \in D |-> {}]

\* no direct call is being made
NoReply == [kind |-> "none", prose |-> FALSE, json |-> [tag |-> "none", items |-> <<>>]]

NoOut == [fn |-> "none", params |-> <<>>, value |-> <<>>]

NoCall == text = <<>> /\ raw = NoReply /\ pages = <<>> /\ out = NoOut

Init == Started(Docs) /\ NoCall

(***************************************************************************)
(* upload_pdf: save_pdf inserts the row and the background task is         *)
(* scheduled.                                                              *)
(***************************************************************************)
upload_pdf(d) ==
    /\ d \notin DOMAIN pdfs
    /\ pdfs' = pdfs @@ (d :> NewPdf)
    /\ pc' = [pc EXCEPT ![d] = "scheduled"]
    /\ UNCHANGED <<qa_pairs, env_key, provider, sess, chunks, idx, result,
                   pending, exc, calls, replies, returned, lastCancel, acceptedAt>>
    /\ UNCHANGED callVars

(***************************************************************************)
(* cancel_pdf_processing: 404 for an unknown id, 400 unless the stored     *)
(* status is one of the four accepted strings, else status and error are   *)
(* rewritten and committed.  The progress column is not touched; the       *)
(* response carries the literal 0.                                         *)
(***************************************************************************)
\* variant: every existing document is canceled, whatever its status
cancel_pdf_processing_any(d) ==
    /\ IF d \notin DOMAIN pdfs
       THEN /\ lastCancel' = [lastCancel EXCEPT ![d] = [at |-> Plain("not_found"), code |-> 404]]
            /\ UNCHANGED <<pdfs, acceptedAt>>
       ELSE /\ lastCancel' = [lastCancel EXCEPT ![d] = [at |-> pdfs[d].status, code |-> 200]]
            /\ acceptedAt' = [acceptedAt EXCEPT ![d] = @ \cup {pdfs[d].status}]
            /\ pdfs' = [pdfs EXCEPT ![d].status = Canceled, ![d].error = CancelError]
    /\ UNCHANGED <<qa_pairs, env_key, provider, jobVars, callVars>>

cancel_pdf_processing(d) ==
    /\ IF d \notin DOMAIN pdfs
       THEN /\ lastCancel' = [lastCancel EXCEPT ![d] = [at |-> Plain("not_found"), code |-> 404]]
            /\ UNCHANGED <<pdfs, acceptedAt>>
       ELSE IF pdfs[d].status \notin Cancelable
       THEN /\ lastCancel' = [lastCancel EXCEPT ![d] = [at |-> pdfs[d].status, code |-> 400]]
            /\ UNCHANGED <<pdfs, acceptedAt>>
       ELSE /\ lastCancel' = [lastCancel EXCEPT ![d] = [at |-> pdfs[d].status, code |-> 200]]
            /\ acceptedAt' = [acceptedAt EXCEPT ![d] = @ \cup {pdfs[d].status}]
            /\ pdfs' = [pdfs EXCEPT ![d].status = Canceled, ![d].error = CancelError]
    /\ UNCHANGED <<qa_pairs, env_key, provider, jobVars, callVars>>

(***************************************************************************)
(* save_api_key: a key that does not start with "sk-" is refused, any      *)
(* other is put into the environment of the process.                       *)
(***************************************************************************)
save_api_key(key) ==
    /\ env_key' = IF key \in SkKeys THEN key ELSE env_key
    /\ UNCHANGED <<pdfs, qa_pairs, provider, jobVars, lastCancel, acceptedAt, callVars>>

(***************************************************************************)
(* The job's session.  A query returns the PDF object of the identity map: *)
(* its attributes are read from the store only if the object is expired    *)
(* (every commit expires it); a loaded object keeps what it read before.   *)
(* A commit writes the attributes the code assigned, and page_count if     *)
(* extract_text assigned it since the last commit.                         *)
(***************************************************************************)
View(d) == IF sess[d].loaded THEN sess[d].status ELSE pdfs[d].status

Loaded(d) == [loaded |-> TRUE, status |-> View(d), page_dirty |-> sess[d].page_dirty]

Flush(row, s) == IF s.page_dirty THEN [row EXCEPT !.page_count = DocPages] ELSE row

(***************************************************************************)
(* process_pdf, lines 163-170: a new session loads the row, sets status    *)
(* and progress and commits.                                               *)
(***************************************************************************)
Start(d) ==
    /\ pc[d] = "scheduled"
    /\ pdfs' = [pdfs EXCEPT ![d].status = Processing, ![d].progress = 10]
    /\ sess' = [sess EXCEPT ![d] = Expired]
    /\ pc' = [pc EXCEPT ![d] = "extract"]
    /\ UNCHANGED <<qa_pairs, env_key, provider, chunks, idx, result, pending, exc,
                   calls, replies, returned, acceptedAt>>
    /\ lastCancel' = [lastCancel EXCEPT ![d] = NoCancel]
    /\ UNCHANGED callVars

(***************************************************************************)
(* extract_text, lines 57-67: status is set again and committed; reading   *)
(* pdf.file_path then reloads the expired object, so the session holds the *)
(* row as it is at the start of the extraction.                            *)
(***************************************************************************)
ExtractBegin(d) ==
    /\ pc[d] = "extract"
    /\ pdfs' = [pdfs EXCEPT ![d].status = Processing]
    /\ sess' = [sess EXCEPT ![d] = [loaded |-> TRUE, status |-> Processing, page_dirty |-> FALSE]]
    /\ pc' = [pc EXCEPT ![d] = "extracting"]
    /\ UNCHANGED <<qa_pairs, env_key, provider, chunks, idx, result, pending, exc,
                   calls, replies, returned, acceptedAt>>
    /\ lastCancel' = [lastCancel EXCEPT ![d] = NoCancel]
    /\ UNCHANGED callVars

(***************************************************************************)
(* extract_text, lines 65-92: the extraction returns, with page_count      *)
(* assigned but not committed, or something in the try block raises: the   *)
(* except branch commits failed with the message and raises HTTPException.  *)
(***************************************************************************)
ExtractEnd(d) ==
    /\ pc[d] = "extracting"
    /\ \/ /\ sess' = [sess EXCEPT ![d].page_dirty = TRUE]
          /\ pc' = [pc EXCEPT ![d] = "extracted"]
          /\ UNCHANGED <<pdfs, exc>>
       \/ \E stage \in ExtractStages :
            \E msg \in HttpExceptionStr("Error extracting text: " \o ExtractMsg(stage)) :
              /\ pdfs' = [pdfs EXCEPT ![d] =
                            [Flush(@, [page_dirty |-> stage = "store"])
                                EXCEPT !.status = Failed, !.error = ExtractMsg(stage)]]
              /\ sess' = [sess EXCEPT ![d] = Expired]
              /\ exc' = [exc EXCEPT ![d] = msg]
              /\ pc' = [pc EXCEPT ![d] = "handler"]
    /\ UNCHANGED <<qa_pairs, env_key, provider, chunks, idx, result, pending,
                   calls, replies, returned, acceptedAt>>
    /\ lastCancel' = [lastCancel EXCEPT ![d] = NoCancel]
    /\ UNCHANGED callVars

(***************************************************************************)
(* process_pdf, lines 176-179: the query returns the object loaded at the  *)
(* start of the extraction; unless that reads canceled, progress becomes   *)
(* 30 and the commit also writes page_count.                               *)
(***************************************************************************)
AfterExtract(d) ==
    /\ pc[d] = "extracted"
    /\ IF View(d) # Canceled
       THEN /\ pdfs' = [pdfs EXCEPT ![d] = [Flush(@, sess[d]) EXCEPT !.progress = 30]]
            /\ sess' = [sess EXCEPT ![d] = Expired]
       ELSE /\ sess' = [sess EXCEPT ![d] = Loaded(d)]
            /\ UNCHANGED pdfs
    /\ pc' = [pc EXCEPT ![d] = "chunk"]
    /\ UNCHANGED <<qa_pairs, env_key, provider, chunks, idx, result, pending, exc,
                   calls, replies, returned, acceptedAt>>
    /\ lastCancel' = [lastCancel EXCEPT ![d] = NoCancel]
    /\ UNCHANGED callVars

(***************************************************************************)
(* process_pdf, lines 182-188: chunk_text, then progress 50 unless the     *)
(* status reads canceled.                                                  *)
(***************************************************************************)
ChunkStep(d) ==
    /\ pc[d] = "chunk"
    /\ pc' = [pc EXCEPT ![d] = "generate"]
    /\ \E cs \in ChunkSeqs : chunks' = [chunks EXCEPT ![d] = cs]
    /\ IF View(d) # Canceled
       THEN /\ pdfs' = [pdfs EXCEPT ![d] = [Flush(@, sess[d]) EXCEPT !.progress = 50]]
            /\ sess' = [sess EXCEPT ![d] = Expired]
       ELSE /\ sess' = [sess EXCEPT ![d] = Loaded(d)]
            /\ UNCHANGED pdfs
    /\ UNCHANGED <<qa_pairs, env_key, provider, idx, result, pending, exc,
                   calls, replies, returned, acceptedAt>>
    /\ lastCancel' = [lastCancel EXCEPT ![d] = NoCancel]
    /\ UNCHANGED callVars

(***************************************************************************)
(* generate_qa_from_chunks, lines 175-180: the PDF is queried once before  *)
(* the loop.                                                               *)
(***************************************************************************)
GenEnter(d) ==
    /\ pc[d] = "generate"
    /\ sess' = [sess EXCEPT ![d] = Loaded(d)]
    /\ idx' = [idx EXCEPT ![d] = 0]
    /\ pc' = [pc EXCEPT ![d] = "loop"]
    /\ UNCHANGED <<pdfs, qa_pairs, env_key, provider, chunks, result, pending, exc,
                   calls, replies, returned, acceptedAt>>
    /\ lastCancel' = [lastCancel EXCEPT ![d] = NoCancel]
    /\ UNCHANGED callVars

(***************************************************************************)
(* Lines 183-193, the boundary before chunk i: return [] if the status     *)
(* reads canceled (process_pdf then ends), else write progress and status  *)
(* and commit.                                                             *)
(***************************************************************************)
\* variant: a canceled status leaves the loop with break, and the lines after
\* the loop run
LoopStepBreak(d) ==
    /\ pc[d] = "loop"
    /\ idx[d] < Len(chunks[d])
    /\ IF View(d) = Canceled
       THEN /\ pdfs' = [pdfs EXCEPT ![d] =
                          [Flush(@, sess[d]) EXCEPT !.status = Completed, !.progress = 100]]
            /\ pc' = [pc EXCEPT ![d] = "done"]
       ELSE /\ pdfs' = [pdfs EXCEPT ![d] =
                          [Flush(@, sess[d]) EXCEPT
                              !.progress = ChunkProgress(idx[d], Len(chunks[d])),
                              !.status = AnalyzingChunk(idx[d] + 1, Len(chunks[d]))]]
            /\ pc' = [pc EXCEPT ![d] = "call"]
    /\ sess' = [sess EXCEPT ![d] = Expired]
    /\ UNCHANGED <<qa_pairs, env_key, provider, chunks, idx, result, pending, exc,
                   calls, replies, returned, acceptedAt>>
    /\ lastCancel' = [lastCancel EXCEPT ![d] = NoCancel]
    /\ UNCHANGED callVars

\* variant: the status is written with the loop index i, counted from 0
LoopStepFromZero(d) ==
    /\ pc[d] = "loop"
    /\ idx[d] < Len(chunks[d])
    /\ IF View(d) = Canceled
       THEN /\ pc' = [pc EXCEPT ![d] = "done"]
            /\ UNCHANGED pdfs
       ELSE /\ pdfs' = [pdfs EXCEPT ![d] =
                          [Flush(@, sess[d]) EXCEPT
                              !.progress = ChunkProgress(idx[d], Len(chunks[d])),
                              !.status = AnalyzingChunk(idx[d], Len(chunks[d]))]]
            /\ pc' = [pc EXCEPT ![d] = "call"]
    /\ sess' = [sess EXCEPT ![d] = Expired]
    /\ UNCHANGED <<qa_pairs, env_key, provider, chunks, idx, result, pending, exc,
                   calls, replies, returned, acceptedAt>>
    /\ lastCancel' = [lastCancel EXCEPT ![d] = NoCancel]
    /\ UNCHANGED callVars

LoopStep(d) ==
    /\ pc[d] = "loop"
    /\ idx[d] < Len(chunks[d])
    /\ IF View(d) = Canceled
       THEN /\ pc' = [pc EXCEPT ![d] = "done"]
            /\ UNCHANGED pdfs
       ELSE /\ pdfs' = [pdfs EXCEPT ![d] =
                          [Flush(@, sess[d]) EXCEPT
                              !.progress = ChunkProgress(idx[d], Len(chunks[d])),
                              !.status = AnalyzingChunk(idx[d] + 1, Len(chunks[d]))]]
            /\ pc' = [pc EXCEPT ![d] = "call"]
    /\ sess' = [sess EXCEPT ![d] = Expired]
    /\ UNCHANGED <<qa_pairs, env_key, provider, chunks, idx, result, pending, exc,
                   calls, replies, returned, acceptedAt>>
    /\ lastCancel' = [lastCancel EXCEPT ![d] = NoCancel]
    /\ UNCHANGED callVars

(***************************************************************************)
(* Lines 196-199 up to the await of the HTTP request: generate_qa_pairs    *)
(* is called; what it raises before sending anything (no API key, unknown  *)
(* provider) leaves generate_qa_from_chunks.                               *)
(***************************************************************************)
Call(d) ==
    /\ pc[d] = "call"
    /\ calls' = [calls EXCEPT ![d] = @ + 1]
    /\ LET r == generate_qa_pairs(provider, env_key, CHOOSE x \in Replies : TRUE,
                                  chunks[d][idx[d] + 1])
       IN  IF r.raised # ""
           THEN /\ exc' = [exc EXCEPT ![d] = r.raised]
                /\ pc' = [pc EXCEPT ![d] = "handler"]
           ELSE /\ pc' = [pc EXCEPT ![d] = "awaiting"]
                /\ UNCHANGED exc
    /\ UNCHANGED <<pdfs, qa_pairs, env_key, provider, sess, chunks, idx, result, pending,
                   replies, returned, acceptedAt>>
    /\ lastCancel' = [lastCancel EXCEPT ![d] = NoCancel]
    /\ UNCHANGED callVars

(***************************************************************************)
(* The HTTP request ends, with a reply or an error, and generate_qa_pairs  *)
(* returns its list.                                                       *)
(***************************************************************************)
ProviderReturn(d) ==
    /\ pc[d] = "awaiting"
    /\ pc' = [pc EXCEPT ![d] = "persist"]
    /\ \E reply \in Replies :
         LET r == generate_qa_pairs(provider, "sk-live", reply, chunks[d][idx[d] + 1])
         IN  /\ result' = [result EXCEPT ![d] = r.pairs]
             /\ replies' = [replies EXCEPT ![d] = Append(@, ReplyCase(reply))]
             /\ returned' = [returned EXCEPT ![d] = Append(@, r.pairs)]
    /\ UNCHANGED <<pdfs, qa_pairs, env_key, provider, sess, chunks, idx, pending, exc,
                   calls, acceptedAt>>
    /\ lastCancel' = [lastCancel EXCEPT ![d] = NoCancel]
    /\ UNCHANGED callVars

(***************************************************************************)
(* Lines 202-216.  QAPairRow is the QAPair built from one returned dict    *)
(* (chunk is not a column: it records the loop index the row was built     *)
(* at).  qa["question"] and qa["answer"] raise KeyError for a missing key,  *)
(* question first.                                                         *)
(***************************************************************************)
\* variant: the owning document is the first one uploaded, as if the id were
\* kept in a field of the shared QAService
QAPairRowSharedId(d, qa, heading, i) ==
    [pdf_id |-> "pdf1", question |-> qa.question, answer |-> qa.answer,
     section |-> IF qa.section = Absent THEN heading ELSE qa.section,
     type |-> IF qa.type = Absent THEN "unknown" ELSE qa.type,
     chunk |-> i]

QAPairRow(d, qa, heading, i) ==
    [pdf_id |-> d, question |-> qa.question, answer |-> qa.answer,
     section |-> IF qa.section = Absent THEN heading ELSE qa.section,
     type |-> IF qa.type = Absent THEN "unknown" ELSE qa.type,
     chunk |-> i]

Raises(qa) == qa.question = Absent \/ qa.answer = Absent

\* number of dicts of the list that are added before one raises
AddedBeforeRaise(list) ==
    IF \E k \in 1..Len(list) : Raises(list[k])
    THEN (CHOOSE k \in 1..Len(list) :
            Raises(list[k]) /\ \A j \in 1..(k - 1) : ~Raises(list[j])) - 1
    ELSE Len(list)

AddedRows(d, list, heading, i) ==
    [k \in 1..AddedBeforeRaise(list) |-> QAPairRow(d, list[k], heading, i)]

\* variant: the rows of a chunk are added but the commit is left to the end of
\* the run
PersistDeferred(d) ==
    /\ pc[d] = "persist"
    /\ pending' = [pending EXCEPT ![d] =
                     @ \o AddedRows(d, result[d], chunks[d][idx[d] + 1], idx[d])]
    /\ idx' = [idx EXCEPT ![d] = @ + 1]
    /\ pc' = [pc EXCEPT ![d] = "loop"]
    /\ UNCHANGED <<pdfs, qa_pairs, env_key, provider, sess, chunks, result, exc,
                   calls, replies, returned, acceptedAt>>
    /\ lastCancel' = [lastCancel EXCEPT ![d] = NoCancel]
    /\ UNCHANGED callVars

Persist(d) ==
    /\ pc[d] = "persist"
    /\ LET list == result[d]
           n == AddedBeforeRaise(list)
           rows == AddedRows(d, list, chunks[d][idx[d] + 1], idx[d])
       IN  IF n = Len(list)
           THEN /\ qa_pairs' = [qa_pairs EXCEPT ![d] = @ \o pending[d] \o rows]
                /\ pdfs' = [pdfs EXCEPT ![d] = Flush(@, sess[d])]
                /\ sess' = [sess EXCEPT ![d] = Expired]
                /\ pending' = [pending EXCEPT ![d] = <<>>]
                /\ idx' = [idx EXCEPT ![d] = @ + 1]
                /\ pc' = [pc EXCEPT ![d] = "loop"]
                /\ UNCHANGED exc
           ELSE /\ pending' = [pending EXCEPT ![d] = @ \o rows]
                /\ exc' = [exc EXCEPT ![d] =
                             KeyErrorMsg(IF list[n + 1].question = Absent
                                         THEN "question" ELSE "answer")]
                /\ pc' = [pc EXCEPT ![d] = "handler"]
                /\ UNCHANGED <<pdfs, qa_pairs, sess, idx>>
    /\ UNCHANGED <<env_key, provider, chunks, result, calls, replies, returned, acceptedAt>>
    /\ lastCancel' = [lastCancel EXCEPT ![d] = NoCancel]
    /\ UNCHANGED callVars

(***************************************************************************)
(* Lines 218-223, after the loop: completed, 100, commit.                  *)
(***************************************************************************)
\* variant: a run without chunks is reported as a failure
CompleteNonEmpty(d) ==
    /\ pc[d] = "loop"
    /\ idx[d] = Len(chunks[d])
    /\ pdfs' = [pdfs EXCEPT ![d] =
                  IF chunks[d] = <<>>
                  THEN [Flush(@, sess[d]) EXCEPT !.status = Failed, !.error = "No chunks"]
                  ELSE [Flush(@, sess[d]) EXCEPT !.status = Completed, !.progress = 100]]
    /\ sess' = [sess EXCEPT ![d] = Expired]
    /\ pc' = [pc EXCEPT ![d] = "done"]
    /\ UNCHANGED <<qa_pairs, env_key, provider, chunks, idx, result, pending, exc,
                   calls, replies, returned, acceptedAt>>
    /\ lastCancel' = [lastCancel EXCEPT ![d] = NoCancel]
    /\ UNCHANGED callVars

\* variant: the lines after the loop run as soon as one chunk is processed
CompleteEarly(d) ==
    /\ pc[d] = "loop"
    /\ idx[d] >= Min(1, Len(chunks[d]))
    /\ pdfs' = [pdfs EXCEPT ![d] =
                  [Flush(@, sess[d]) EXCEPT !.status = Completed, !.progress = 100]]
    /\ sess' = [sess EXCEPT ![d] = Expired]
    /\ pc' = [pc EXCEPT ![d] = "done"]
    /\ UNCHANGED <<qa_pairs, env_key, provider, chunks, idx, result, pending, exc,
                   calls, replies, returned, acceptedAt>>
    /\ lastCancel' = [lastCancel EXCEPT ![d] = NoCancel]
    /\ UNCHANGED callVars

Complete(d) ==
    /\ pc[d] = "loop"
    /\ idx[d] = Len(chunks[d])
    /\ pdfs' = [pdfs EXCEPT ![d] =
                  [Flush(@, sess[d]) EXCEPT !.status = Completed, !.progress = 100]]
    /\ sess' = [sess EXCEPT ![d] = Expired]
    /\ pc' = [pc EXCEPT ![d] = "done"]
    /\ UNCHANGED <<qa_pairs, env_key, provider, chunks, idx, result, pending, exc,
                   calls, replies, returned, acceptedAt>>
    /\ lastCancel' = [lastCancel EXCEPT ![d] = NoCancel]
    /\ UNCHANGED callVars

(***************************************************************************)
(* process_pdf, lines 193-201, the except branch: failed and str(e) are    *)
(* written and committed.  The commit flushes whatever the session holds,  *)
(* so the QAPair objects added before the exception are inserted with it.  *)
(***************************************************************************)
Handler(d) ==
    /\ pc[d] = "handler"
    /\ pdfs' = [pdfs EXCEPT ![d] =
                  [Flush(@, sess[d]) EXCEPT !.status = Failed, !.error = exc[d]]]
    /\ qa_pairs' = [qa_pairs EXCEPT ![d] = @ \o pending[d]]
    /\ pending' = [pending EXCEPT ![d] = <<>>]
    /\ sess' = [sess EXCEPT ![d] = Expired]
    /\ pc' = [pc EXCEPT ![d] = "done"]
    /\ UNCHANGED <<env_key, provider, chunks, idx, result, exc,
                   calls, replies, returned, acceptedAt>>
    /\ lastCancel' = [lastCancel EXCEPT ![d] = NoCancel]
    /\ UNCHANGED callVars

(***************************************************************************)
(* get_pdf_status: the response for an existing id.                        *)
(***************************************************************************)
StatusMessage(row) ==
    CASE row.status = Uploaded -> "PDF uploaded. Waiting for processing."
      [] row.status = Processing -> "Extracting text from PDF..."
      [] row.status.tag = "analyzing_chunk" -> "Generating Q&A pairs ({current}/{total} chunks)..."
      [] row.status = Completed -> "Processing completed successfully."
      [] row.status = Failed -> "Processing failed: " \o row.error
      [] row.status = Canceled -> "Processing was canceled by the user"
      [] OTHER -> "Processing not started"

get_pdf_status(d) ==
    [id |-> d,
     status |-> pdfs[d].status,
     progress |-> IF pdfs[d].status = Completed THEN 100 ELSE pdfs[d].progress,
     message |-> StatusMessage(pdfs[d]),
     current |-> pdfs[d].status.current,
     total |-> pdfs[d].status.total]

Next ==
    \/ \E d \in Docs : upload_pdf(d)
    \/ \E d \in Docs : cancel_pdf_processing(d)
    \/ \E key \in PostedKeys : save_api_key(key)
    \/ \E d \in Docs : Start(d)
    \/ \E d \in Docs : ExtractBegin(d)
    \/ \E d \in Docs : ExtractEnd(d)
    \/ \E d \in Docs : AfterExtract(d)
    \/ \E d \in Docs : ChunkStep(d)
    \/ \E d \in Docs : GenEnter(d)
    \/ \E d \in Docs : LoopStep(d)
    \/ \E d \in Docs : Call(d)
    \/ \E d \in Docs : ProviderReturn(d)
    \/ \E d \in Docs : Persist(d)
    \/ \E d \in Docs : Complete(d)
    \/ \E d \in Docs : Handler(d)

Spec == Init /\ [][Next]_vars

TypeOK ==
    /\ DOMAIN pdfs \subseteq Docs
    /\ \A d \in DOMAIN pdfs : pdfs[d].progress \in 0..100
    /\ \A d \in Docs : Len(qa_pairs[d]) <= MaxChunks * MaxPairs

(***************************************************************************)
(* A store that can raise.  The job commits at lines 170, 63, 90, 179,     *)
(* 188, 193, 216 and 221; a commit that raises rolls the session back (the *)
(* assigned attributes and the added QAPair objects are discarded) and the *)
(* exception reaches the except branch of process_pdf.  That branch        *)
(* queries and commits too (lines 195-199) and nothing catches what it     *)
(* raises: the task ends after db.close() and the row stays as it was.     *)
(***************************************************************************)
StoreErrorMsg == "(sqlite3.OperationalError) database is locked"

\* the job of d is about to run a stretch of code that ends with a commit
CommitsAt(d) ==
    \/ pc[d] \in {"scheduled", "extract", "extracting"}
    \/ pc[d] \in {"extracted", "chunk"} /\ View(d) # Canceled
    \/ pc[d] = "loop" /\ (idx[d] = Len(chunks[d]) \/ View(d) # Canceled)
    \/ pc[d] = "persist" /\ AddedBeforeRaise(result[d]) = Len(result[d])

CommitRaises(d) ==
    /\ CommitsAt(d)
    /\ sess' = [sess EXCEPT ![d] = Expired]
    /\ pending' = [pending EXCEPT ![d] = <<>>]
    /\ exc' = [exc EXCEPT ![d] = StoreErrorMsg]
    /\ pc' = [pc EXCEPT ![d] = "handler"]
    /\ UNCHANGED <<pdfs, qa_pairs, env_key, provider, chunks, idx, result,
                   calls, replies, returned, acceptedAt>>
    /\ lastCancel' = [lastCancel EXCEPT ![d] = NoCancel]
    /\ UNCHANGED callVars

HandlerRaises(d) ==
    /\ pc[d] = "handler"
    /\ sess' = [sess EXCEPT ![d] = Expired]
    /\ pending' = [pending EXCEPT ![d] = <<>>]
    /\ pc' = [pc EXCEPT ![d] = "crashed"]
    /\ UNCHANGED <<pdfs, qa_pairs, env_key, provider, chunks, idx, result, exc,
                   calls, replies, returned, acceptedAt>>
    /\ lastCancel' = [lastCancel EXCEPT ![d] = NoCancel]
    /\ UNCHANGED callVars

\* a step of the task process_pdf(d)
JobStep(d) ==
    \/ Start(d) \/ ExtractBegin(d) \/ ExtractEnd(d) \/ AfterExtract(d)
    \/ ChunkStep(d) \/ GenEnter(d) \/ LoopStep(d) \/ Call(d) \/ ProviderReturn(d)
    \/ Persist(d) \/ Complete(d) \/ Handler(d)
    \/ CommitRaises(d) \/ HandlerRaises(d)

FaultNext ==
    \/ Next
    \/ \E d \in Docs : CommitRaises(d)
    \/ \E d \in Docs : HandlerRaises(d)

\* the event loop runs a task that can take a step; extraction and provider
\* calls return or raise
FaultSpec == Init /\ [][FaultNext]_vars /\ \A d \in Docs : WF_vars(JobStep(d))

(***************************************************************************)
(* Two documents.  Every upload schedules its own task process_pdf, with   *)
(* its own session; the tasks and the handlers of the two documents        *)
(* interleave.  To keep the product of the two runs small the documents    *)
(* considered have at most one chunk and the replies at most one pair.     *)
(***************************************************************************)
TwoDocs == {"pdf1", "pdf2"}

ShortInputs ==
    \A d \in TwoDocs :
        /\ Len(chunks[d]) <= 1
        /\ \A k \in 1..Len(returned[d]) : Len(returned[d][k]) <= 1

\* chunk_text and the provider, for the documents and replies considered
ShortChunkStep(d) == ChunkStep(d) /\ ShortInputs'

ShortProviderReturn(d) == ProviderReturn(d) /\ ShortInputs'

TwoDocsNext ==
    \/ \E d \in TwoDocs : upload_pdf(d)
    \/ \E d \in TwoDocs : cancel_pdf_processing(d)
    \/ \E key \in PostedKeys : save_api_key(key)
    \/ \E d \in TwoDocs : Start(d)
    \/ \E d \in TwoDocs : ExtractBegin(d)
    \/ \E d \in TwoDocs : ExtractEnd(d)
    \/ \E d \in TwoDocs : AfterExtract(d)
    \/ \E d \in TwoDocs : ShortChunkStep(d)
    \/ \E d \in TwoDocs : GenEnter(d)
    \/ \E d \in TwoDocs : LoopStep(d)
    \/ \E d \in TwoDocs : Call(d)
    \/ \E d \in TwoDocs : ShortProviderReturn(d)
    \/ \E d \in TwoDocs : Persist(d)
    \/ \E d \in TwoDocs : Complete(d)
    \/ \E d \in TwoDocs : Handler(d)

TwoDocsInit == Started(TwoDocs) /\ NoCall

TwoDocsSpec == TwoDocsInit /\ [][TwoDocsNext]_vars

(***************************************************************************)
(* Direct calls of the pure methods: chunk_text with each strategy,        *)
(* chunk_by_size with its two parameters, generate_qa_pairs of a           *)
(* ModelProvider of each kind on the same reply (with an API key set),     *)
(* and the extraction of lines 65-72 of extract_text on what pdfminer and  *)
(* the OCR return for a file of DocPages pages.                            *)
(* The texts: every text of at most MaxText characters, and the texts of   *)
(* at most MaxTokens one-letter words separated by single spaces.          *)
(***************************************************************************)
Words == {<<"a">>, <<"A">>}

Texts ==
    SeqUpTo(Chars, MaxText) \cup {Join(ws, <<" ">>) : ws \in SeqUpTo(Words, MaxTokens)}

Strategies == {"semantic", "fixed", "paragraph"}

\* n copies of the character c
Repeat(c, n) == [k \in 1..n |-> c]

\* what pdfminer may return: a body of 0, 1 or about MinTextLength letters,
\* with or without whitespace before and after it
PrimaryTexts ==
    {Repeat(" ", lead) \o Repeat("a", n) \o Repeat("\n", trail) :
        lead \in 0..1, trail \in 0..1,
        n \in {0, 1, MinTextLength - 1, MinTextLength, MinTextLength + 1}}

\* what the OCR may read on a page
PageTexts == {<<>>, <<"a">>, <<"A", "\n">>}

CallInit ==
    /\ Started(Docs)
    /\ env_key = "sk-live"
    /\ provider = "claude"
    /\ out = NoOut
    /\ \/ text \in Texts /\ raw = NoReply /\ pages = <<>>
       \/ text = <<>> /\ raw \in Replies /\ pages = <<>>
       \/ text \in PrimaryTexts /\ raw = NoReply /\ pages \in [1..DocPages -> PageTexts]

call_chunk_text(strategy) ==
    /\ raw = NoReply
    /\ pages = <<>>
    /\ out' = [fn |-> "chunk_text", params |-> <<strategy>>,
               value |-> chunk_text(text, strategy)]
    /\ UNCHANGED <<pdfs, qa_pairs, env_key, provider, jobVars, lastCancel, acceptedAt,
                   text, raw, pages>>

call_chunk_by_size(max_tokens, overlap) ==
    /\ raw = NoReply
    /\ pages = <<>>
    /\ out' = [fn |-> "chunk_by_size", params |-> <<max_tokens, overlap>>,
               value |-> chunk_by_size(text, max_tokens, overlap)]
    /\ UNCHANGED <<pdfs, qa_pairs, env_key, provider, jobVars, lastCancel, acceptedAt,
                   text, raw, pages>>

call_generate_qa_pairs(heading) ==
    /\ raw # NoReply
    /\ out' = [fn |-> "generate_qa_pairs", params |-> <<heading>>,
               value |-> [claude |-> generate_qa_pairs("claude", env_key, raw, heading).pairs,
                          ollama |-> generate_qa_pairs("ollama", env_key, raw, heading).pairs]]
    /\ UNCHANGED <<pdfs, qa_pairs, env_key, provider, jobVars, lastCancel, acceptedAt,
                   text, raw, pages>>

call_extract_text ==
    /\ pages # <<>>
    /\ out' = [fn |-> "extract_text", params |-> <<>>, value |-> extract_text(text, pages)]
    /\ UNCHANGED <<pdfs, qa_pairs, env_key, provider, jobVars, lastCancel, acceptedAt,
                   text, raw, pages>>

CallNext ==
    \/ \E strategy \in Strategies : call_chunk_text(strategy)
    \/ \E max_tokens \in 1..MaxWindow : \E overlap \in 0..(max_tokens - 1) :
          call_chunk_by_size(max_tokens, overlap)
    \/ call_generate_qa_pairs(HeadingOf(1))
    \/ call_extract_text

CallSpec == CallInit /\ [][CallNext]_vars

(***************************************************************************)
(* Helpers of the properties.                                              *)
(***************************************************************************)
\* the committed rows of d that were built for chunk index i
StoredFor(d, i) == SelectSeq(qa_pairs[d], LAMBDA row : row.chunk = i)

IsGenerating(st) == st.tag = "analyzing_chunk"

(***************************************************************************)
(* C1: terminal states are absorbing - once the stored status of a         *)
(* document is completed, failed or canceled, no step of its run and no    *)
(* cancel request changes it.                                              *)
(* Violated: the job overwrites a stored canceled (and the failure paths   *)
(* overwrite it with failed).                                              *)
(***************************************************************************)
C1Absorbing ==
    [][\A d \in DOMAIN pdfs :
          pdfs[d].status \in Terminal => pdfs'[d].status = pdfs[d].status]_vars

(***************************************************************************)
(* C2: a cancel request made while the status is Generating(i, n) is       *)
(* accepted; afterwards no pair is stored for a chunk after chunk i, and   *)
(* the run ends with status canceled.                                      *)
(* Violated: the request is answered 400 and the run goes on.              *)
(***************************************************************************)
C2CancelWhileGenerating ==
    \A d \in DOMAIN pdfs :
        /\ IsGenerating(lastCancel[d].at) => lastCancel[d].code = 200
        /\ \A st \in acceptedAt[d] :
               IsGenerating(st) =>
                   /\ \A k \in 1..Len(qa_pairs[d]) : qa_pairs[d][k].chunk <= st.current - 1
                   /\ pc[d] = "done" => pdfs[d].status = Canceled

(***************************************************************************)
(* C3: if a cancel request was accepted while the status was uploaded or   *)
(* processing (extracting), the run makes no provider call, stores no pair *)
(* and ends with status canceled, whatever the chunk sequence.             *)
(* (A run whose extraction raised has no chunk sequence; it ends failed and *)
(* is not counted against the claim.)                                      *)
(* Violated: the start of the job overwrites canceled; with no chunk the   *)
(* loop body never runs and completed is written.                          *)
(***************************************************************************)
C3CancelBeforeLoop ==
    \A d \in DOMAIN pdfs :
        acceptedAt[d] \cap {Uploaded, Processing} # {} =>
            /\ calls[d] = 0
            /\ qa_pairs[d] = <<>>
            /\ (pc[d] = "done" /\ pdfs[d].status # Failed) => pdfs[d].status = Canceled

(***************************************************************************)
(* C4: in every reachable state of a document 0 <= progress <= 100, and    *)
(* progress is 100 exactly when the status is completed; this holds of the *)
(* stored row and of what get_pdf_status answers.                          *)
(***************************************************************************)
C4ProgressRange ==
    \A d \in DOMAIN pdfs :
        /\ pdfs[d].progress \in 0..100
        /\ pdfs[d].progress = 100 <=> pdfs[d].status = Completed
        /\ get_pdf_status(d).progress \in 0..100
        /\ get_pdf_status(d).progress = 100 <=> get_pdf_status(d).status = Completed

C4Witness ==
    \E d \in DOMAIN pdfs :
        /\ pdfs[d].status = Completed
        /\ pdfs[d].progress = 100
        /\ Len(chunks[d]) = MaxChunks

(***************************************************************************)
(* C5: in a run that is neither canceled nor failed, the progress answered *)
(* by successive status reads never decreases, and a read answers 100 only *)
(* together with status completed.                                         *)
(***************************************************************************)
C5ProgressMonotone ==
    /\ [][\A d \in DOMAIN pdfs :
             (acceptedAt'[d] = {} /\ pdfs'[d].status \notin {Canceled, Failed})
                 => get_pdf_status(d)'.progress >= get_pdf_status(d).progress]_vars
    /\ [](\A d \in DOMAIN pdfs :
             get_pdf_status(d).progress = 100 => get_pdf_status(d).status = Completed)

C5Witness ==
    \E d \in DOMAIN pdfs :
        /\ acceptedAt[d] = {}
        /\ get_pdf_status(d).status = Completed
        /\ get_pdf_status(d).progress = 100
        /\ Len(chunks[d]) = MaxChunks
        /\ Len(qa_pairs[d]) > 0

(***************************************************************************)
(* C6: when the request for chunk k ends in a transport error, the list    *)
(* returned for chunk k is the one degraded pair (type error, the message  *)
(* in its answer), exactly that pair is stored for chunk k, the run does   *)
(* not fail at chunk k, and the loop goes on to chunk k+1.                  *)
(***************************************************************************)
DegradedRow(d, k) ==
    QAPairRow(d, DegradedPair(TransportMsg, chunks[d][k]), chunks[d][k], k - 1)

C6TransportError ==
    /\ [](\A d \in DOMAIN pdfs : \A k \in 1..Len(replies[d]) :
            replies[d][k].kind = "transport_error" =>
              /\ returned[d][k] = <<DegradedPair(TransportMsg, chunks[d][k])>>
              /\ DegradedRow(d, k).type = "error"
              /\ DegradedRow(d, k).answer = "API error: " \o TransportMsg
              /\ idx[d] = k - 1 => (pc[d] = "persist" /\ pdfs[d].status # Failed)
              /\ idx[d] >= k => StoredFor(d, k - 1) = <<DegradedRow(d, k)>>)
    /\ [][\A d \in DOMAIN pdfs :
            /\ (/\ pc[d] = "persist"
                /\ replies[d][idx[d] + 1].kind = "transport_error"
                /\ pc'[d] # "persist")
                   => (pc'[d] = "loop" /\ idx'[d] = idx[d] + 1 /\ pdfs'[d].status # Failed)
            /\ (/\ pc[d] = "loop"
                /\ idx[d] \in 1..(Len(chunks[d]) - 1)
                /\ replies[d][idx[d]].kind = "transport_error"
                /\ pc'[d] # "loop")
                   => (/\ pc'[d] = "call"
                       /\ pdfs'[d].status = AnalyzingChunk(idx[d] + 1, Len(chunks[d])))]_vars

C6Witness ==
    \E d \in DOMAIN pdfs :
        /\ Len(replies[d]) >= 1
        /\ replies[d][1].kind = "transport_error"
        /\ idx[d] = 1
        /\ pc[d] = "awaiting"
        /\ Len(StoredFor(d, 0)) = 1
        /\ StoredFor(d, 0)[1].type = "error"

(***************************************************************************)
(* C7: whatever goes wrong with one provider call (transport error, HTTP   *)
(* error status, no JSON array in the reply, JSON that is not an array of  *)
(* objects each with a question and an answer), the call yields the        *)
(* degraded pair of type error and the run does not fail at that chunk.    *)
(* Violated: an array with an object that lacks a question or an answer is *)
(* returned as it is, and building the QAPair raises KeyError.             *)
(***************************************************************************)
C7EveryFailureDegrades ==
    \A d \in DOMAIN pdfs : \A k \in 1..Len(replies[d]) :
        (replies[d][k].kind # "ok" \/ replies[d][k].tag # "array" \/ ~replies[d][k].complete) =>
            /\ idx[d] = k - 1 => pdfs[d].status # Failed
            /\ idx[d] >= k => (/\ Len(StoredFor(d, k - 1)) = 1
                               /\ StoredFor(d, k - 1)[1].type = "error")

(***************************************************************************)
(* C8: with the hosted backend and no credential, a run (not canceled)     *)
(* ends failed with the configuration error recorded, the status never     *)
(* becomes Generating, and no pair is stored.                              *)
(* Violated: the key is looked up inside the first provider call, after    *)
(* the status write of chunk 1; with no chunk it is never looked up and    *)
(* the run completes.                                                      *)
(***************************************************************************)
C8MissingCredential ==
    \A d \in DOMAIN pdfs :
        (provider = "claude" /\ env_key = "") =>
            /\ ~IsGenerating(pdfs[d].status)
            /\ qa_pairs[d] = <<>>
            /\ (pc[d] = "done" /\ acceptedAt[d] = {}) => pdfs[d].status = Failed
            /\ (pdfs[d].status = Failed /\ calls[d] > 0) => pdfs[d].error = ApiKeyError

(***************************************************************************)
(* C9: after a cancel request was accepted, every status read answers      *)
(* status canceled with progress 0, and the stored progress is 0.          *)
(* Violated: the handler leaves the progress column as it is.              *)
(***************************************************************************)
C9CancelResetsProgress ==
    \A d \in DOMAIN pdfs :
        acceptedAt[d] # {} =>
            /\ get_pdf_status(d).status = Canceled
            /\ get_pdf_status(d).progress = 0
            /\ pdfs[d].progress = 0

(***************************************************************************)
(* C10: in every committed state, for each chunk either all the pairs the  *)
(* provider returned for it are stored or none of them is.                 *)
(* Violated: the rows added before a KeyError stay in the session and the  *)
(* commit of the failure handler inserts them.                             *)
(***************************************************************************)
C10ChunkAtomic ==
    \A d \in DOMAIN pdfs : \A k \in 1..Len(returned[d]) :
        Len(StoredFor(d, k - 1)) \in {0, Len(returned[d][k])}

(***************************************************************************)
(* C11: within one run the chunks are processed one after the other in     *)
(* index order - the call for a chunk begins only when the lists returned  *)
(* for all earlier chunks are committed and nothing is left uncommitted in *)
(* the session, the n-th call is the call for chunk index n-1, and at most *)
(* one call of a document is in flight.                                    *)
(***************************************************************************)
CommittedThrough(d, n) ==
    \A j \in 0..(n - 1) :
        StoredFor(d, j) = AddedRows(d, returned[d][j + 1], chunks[d][j + 1], j)

C11Sequential ==
    /\ [](\A d \in DOMAIN pdfs :
            /\ calls[d] - Len(returned[d]) \in {0, 1}
            /\ pc[d] = "awaiting" => (calls[d] = idx[d] + 1 /\ Len(returned[d]) = idx[d]))
    /\ [][\A d \in DOMAIN pdfs :
            calls'[d] # calls[d] =>
                /\ calls'[d] = calls[d] + 1
                /\ idx[d] = calls[d]
                /\ Len(returned[d]) = idx[d]
                /\ pending[d] = <<>>
                /\ Len(qa_pairs[d]) = Len(qa_pairs'[d])
                /\ CommittedThrough(d, idx[d])]_vars

C11Witness ==
    \E d \in DOMAIN pdfs :
        /\ pc[d] = "awaiting"
        /\ calls[d] = MaxChunks
        /\ idx[d] = MaxChunks - 1
        /\ Len(StoredFor(d, MaxChunks - 2)) = MaxPairs

(***************************************************************************)
(* C12: every job that has started running eventually has one of the       *)
(* statuses completed, failed, canceled, given that extraction and         *)
(* provider calls return or raise; a run in which an exception reached the *)
(* except branch of process_pdf (raised by the extraction, the provider    *)
(* call, the building of a row, or the store) ends failed with the message *)
(* of that exception recorded.                                             *)
(* Violated: when the store raises in the except branch itself the task    *)
(* ends and the status stays what it was.                                  *)
(***************************************************************************)
Ended(d) == pc[d] \in {"done", "crashed"}

C12Terminates ==
    /\ \A d \in Docs :
          (pc[d] \notin {"none", "scheduled"}) ~> (Ended(d) /\ pdfs[d].status \in Terminal)
    /\ [](\A d \in DOMAIN pdfs :
            (Ended(d) /\ exc[d] # "") =>
                (pdfs[d].status = Failed /\ pdfs[d].error = exc[d]))

(***************************************************************************)
(* C13: when chunk_text returned the empty sequence and the job is neither *)
(* canceled nor failed, no provider call is made, no pair is stored or     *)
(* added, and the next step of the job writes completed with progress 100  *)
(* and ends it.                                                            *)
(***************************************************************************)
Chunked(d) == pc[d] \in {"generate", "loop", "done"}

C13EmptySequence ==
    /\ [](\A d \in DOMAIN pdfs :
            (Chunked(d) /\ chunks[d] = <<>> /\ pdfs[d].status \notin {Canceled, Failed}) =>
                /\ calls[d] = 0
                /\ qa_pairs[d] = <<>>
                /\ pending[d] = <<>>
                /\ pc[d] = "done" => (/\ pdfs[d].status = Completed
                                      /\ pdfs[d].progress = 100
                                      /\ get_pdf_status(d).progress = 100))
    /\ [][\A d \in DOMAIN pdfs :
            (pc[d] = "loop" /\ chunks[d] = <<>> /\ pc'[d] # pc[d]) =>
                /\ pc'[d] = "done"
                /\ pdfs'[d].status = Completed
                /\ pdfs'[d].progress = 100
                /\ calls'[d] = 0
                /\ qa_pairs'[d] = <<>>]_vars

C13Witness ==
    \E d \in DOMAIN pdfs :
        /\ pc[d] = "done"
        /\ chunks[d] = <<>>
        /\ acceptedAt[d] = {}
        /\ pdfs[d].status = Completed
        /\ pdfs[d].progress = 100
        /\ pdfs[d].page_count = DocPages
        /\ calls[d] = 0
        /\ qa_pairs[d] = <<>>

(***************************************************************************)
(* C14: when the extraction (pdfminer or the OCR fallback, or what follows *)
(* them in the try block) raises, the job ends failed with the causing     *)
(* message recorded, and no chunking, provider call or QAPair follows.     *)
(* Violated: the except branch of process_pdf replaces the message         *)
(* extract_text recorded by str() of the HTTPException, which is empty     *)
(* when that class has no __str__.                                         *)
(***************************************************************************)
\* the exception of extract_text is on its way to process_pdf's except branch
ExtractionRaised(d) == pc[d] = "handler" /\ calls[d] = 0

TextExtractionRaised(d) ==
    /\ ExtractionRaised(d)
    /\ pdfs[d].status = Failed
    /\ pdfs[d].error = ExtractMsg("text")

C15PageCountIndependent ==
    \A d \in DOMAIN pdfs : TextExtractionRaised(d) => pdfs[d].page_count = DocPages

(***************************************************************************)
(* C16: the runs and requests of different documents interleave freely -   *)
(* a step taken for one document (a request about it, or a step of its     *)
(* task, which shows in that document's task or request state or in what   *)
(* the store holds about it) leaves the row (status, progress, error,      *)
(* page_count), the stored pairs and the task of every other document as   *)
(* they are, and every stored or added QAPair carries the id of the        *)
(* document whose task built it, from a list returned for one of that      *)
(* document's chunks.                                                      *)
(***************************************************************************)
\* what the store holds about document d
DocState(d) ==
    [row |-> IF d \in DOMAIN pdfs THEN <<pdfs[d]>> ELSE <<>>, pairs |-> qa_pairs[d]]

\* the task of document d and the answers to the requests about d
TaskState(d) ==
    <<pc[d], sess[d], chunks[d], idx[d], result[d], pending[d], exc[d], calls[d],
      replies[d], returned[d], lastCancel[d], acceptedAt[d]>>

BuiltFor(d, row) ==
    /\ row.pdf_id = d
    /\ row.chunk + 1 \in 1..Len(returned[d])
    /\ \E k \in 1..Len(returned[d][row.chunk + 1]) :
          row = QAPairRow(d, returned[d][row.chunk + 1][k], chunks[d][row.chunk + 1], row.chunk)

C16Isolation ==
    /\ [](\A d \in TwoDocs :
            /\ \A k \in 1..Len(qa_pairs[d]) : BuiltFor(d, qa_pairs[d][k])
            /\ \A k \in 1..Len(pending[d]) : BuiltFor(d, pending[d][k]))
    /\ [][\A a \in TwoDocs :
            (TaskState(a)' # TaskState(a) \/ DocState(a)' # DocState(a)) =>
                \A b \in TwoDocs \ {a} :
                    DocState(b)' = DocState(b) /\ TaskState(b)' = TaskState(b)]_vars

C16Witness ==
    /\ DOMAIN pdfs = TwoDocs
    /\ pdfs["pdf1"].status = Canceled
    /\ acceptedAt["pdf1"] = {Processing}
    /\ pc["pdf1"] \in {"extracted", "chunk", "generate", "loop"}
    /\ pc["pdf2"] = "done"
    /\ pdfs["pdf2"].status = Completed
    /\ Len(qa_pairs["pdf2"]) = 1
    /\ qa_pairs["pdf2"][1].pdf_id = "pdf2"
    /\ qa_pairs["pdf1"] = <<>>

(***************************************************************************)
(* C17: every QAPair stored or added for a chunk, the degraded error pair  *)
(* included, has the heading of that chunk as its section, whatever        *)
(* section the objects of the reply carried; so has every pair a backend   *)
(* returned.                                                               *)
(***************************************************************************)
C17SectionIsHeading ==
    \A d \in DOMAIN pdfs :
        /\ \A k \in 1..Len(qa_pairs[d]) :
              qa_pairs[d][k].section = chunks[d][qa_pairs[d][k].chunk + 1]
        /\ \A k \in 1..Len(pending[d]) :
              pending[d][k].section = chunks[d][pending[d][k].chunk + 1]
        /\ \A k \in 1..Len(returned[d]) : \A j \in 1..Len(returned[d][k]) :
              returned[d][k][j].section = chunks[d][k]

C17Witness ==
    \E d \in DOMAIN pdfs :
        /\ Len(replies[d]) = MaxChunks
        /\ idx[d] = MaxChunks
        /\ replies[d][1].kind = "http_error"
        /\ Len(StoredFor(d, 0)) = 1
        /\ StoredFor(d, 0)[1].type = "error"
        /\ StoredFor(d, 0)[1].section = HeadingOf(1)
        /\ replies[d][MaxChunks].sectioned
        /\ Len(StoredFor(d, MaxChunks - 1)) = MaxPairs
        /\ \A k \in 1..MaxPairs : StoredFor(d, MaxChunks - 1)[k].section = HeadingOf(MaxChunks)

(***************************************************************************)
(* C18: the two backends parse the reply by the same rule - for a reply    *)
(* that is a JSON array of pairs, alone or with prose around it, both      *)
(* return the pairs of the array (stamped with the heading), and for a     *)
(* reply without a "[" ... "]" span both return the one degraded pair.     *)
(* Violated: the hosted backend gives the whole text to json.loads, so an  *)
(* array with prose around it yields the degraded pair there.              *)
(***************************************************************************)
IsDegraded(pairs, heading) ==
    /\ Len(pairs) = 1
    /\ pairs[1].question = "Error generating Q&A"
    /\ pairs[1].type = "error"
    /\ pairs[1].section = heading

C18SameParseRule ==
    (out.fn = "generate_qa_pairs" /\ raw.kind = "ok") =>
        /\ raw.json.tag = "array" =>
              /\ out.value.claude = Stamp(raw.json.items, out.params[1])
              /\ out.value.ollama = Stamp(raw.json.items, out.params[1])
        /\ raw.json.tag \in {"none", "object"} =>
              /\ IsDegraded(out.value.claude, out.params[1])
              /\ IsDegraded(out.value.ollama, out.params[1])

(***************************************************************************)
(* C19: chunk_by_size on a text of T >= 1 tokens, with 0 <= overlap <      *)
(* max_tokens, returns ceil(T / (max_tokens - overlap)) chunks; chunk k    *)
(* (from 0) holds the tokens from index k * (max_tokens - overlap) on, at  *)
(* most max_tokens of them; and the chunks, each without the part that     *)
(* overlaps its successor, concatenate to the token sequence of the text.  *)
(***************************************************************************)
CeilDiv(a, b) == (a + b - 1) \div b

\* the tokens of the chunks from the k-th on, each cut where its successor
\* begins (step tokens after its own beginning), the last one whole
RECURSIVE Reassemble(_, _, _)
Reassemble(cs, k, step) ==
    IF k > Len(cs) THEN <<>>
    ELSE IF k = Len(cs) THEN Split(cs[k].content)
    ELSE Slice(Split(cs[k].content), 0, step) \o Reassemble(cs, k + 1, step)

C19FixedSize ==
    (out.fn = "chunk_by_size" /\ Len(Split(text)) >= 1) =>
        LET tokens == Split(text)
            step == out.params[1] - out.params[2]
            cs == out.value
        IN  /\ Len(cs) = CeilDiv(Len(tokens), step)
            /\ \A k \in 1..Len(cs) :
                  /\ Split(cs[k].content) = Slice(tokens, (k - 1) * step,
                                                  (k - 1) * step + out.params[1])
                  /\ Len(Split(cs[k].content)) \in 1..out.params[1]
            /\ Reassemble(cs, 1, step) = tokens

C19Witness ==
    /\ out.fn = "chunk_by_size"
    /\ out.params = <<MaxWindow, MaxWindow - 1>>
    /\ Len(Split(text)) = MaxTokens
    /\ Len(out.value) = MaxTokens
    /\ \E i, j \in 1..MaxTokens : Split(text)[i] # Split(text)[j]
    /\ Len(Split(out.value[1].content)) = MaxWindow

(***************************************************************************)
(* C20, as stated: the empty text gives the empty chunk sequence under     *)
(* each strategy, and under the semantic strategy a non-empty text in      *)
(* which no heading pattern matches gives exactly one chunk, with heading  *)
(* "Introduction" and the whole text as its content.                       *)
(* Violated: the content is text[last_end:].strip(), the text without its  *)
(* leading and trailing whitespace.                                        *)
(***************************************************************************)
NoHeadingCall ==
    /\ out.fn = "chunk_text"
    /\ out.params = <<"semantic">>
    /\ text # <<>>
    /\ Headings(text, 0) = <<>>

C20WholeText ==
    /\ (out.fn = "chunk_text" /\ text = <<>>) => out.value = <<>>
    /\ NoHeadingCall => out.value = <<[heading |-> Introduction, content |-> text]>>

(***************************************************************************)
(* C20, amended: ... exactly one chunk, with heading "Introduction" and    *)
(* the text without its leading and trailing whitespace as its content.    *)
(***************************************************************************)
C20TrimmedText ==
    /\ (out.fn = "chunk_text" /\ text = <<>>) => out.value = <<>>
    /\ NoHeadingCall => out.value = <<[heading |-> Introduction, content |-> Strip(text)]>>

C20Witness ==
    /\ NoHeadingCall
    /\ Len(text) = MaxText
    /\ IsSpace(text[1])
    /\ Strip(text) # <<>>
    /\ Len(out.value) = 1
    /\ out.value[1].heading = Introduction
    /\ out.value[1].content = Strip(text)

(***************************************************************************)
(* C21: while chunk i (0 <= i < n) of n chunks is being processed, from    *)
(* the commit of line 193 to the commit of line 216, the stored status is  *)
(* analyzing_chunk_{i+1}_of_{n} and the stored progress is                 *)
(* 50 + floor(40 * i / n); every stored analyzing_chunk status has         *)
(* 1 <= current <= total and comes with 50 <= progress < 90; and the       *)
(* provider call for chunk i begins with that status already committed.    *)
(***************************************************************************)
Processed(d) == pc[d] \in {"call", "awaiting", "persist"}

C21Generating ==
    /\ [](\A d \in DOMAIN pdfs :
            /\ Processed(d) =>
                  /\ idx[d] \in 0..(Len(chunks[d]) - 1)
                  /\ pdfs[d].status = AnalyzingChunk(idx[d] + 1, Len(chunks[d]))
                  /\ pdfs[d].progress = 50 + ((40 * idx[d]) \div Len(chunks[d]))
            /\ pdfs[d].status.tag = "analyzing_chunk" =>
                  /\ 1 <= pdfs[d].status.current
                  /\ pdfs[d].status.current <= pdfs[d].status.total
                  /\ 50 <= pdfs[d].progress
                  /\ pdfs[d].progress < 90
                  /\ get_pdf_status(d).progress = pdfs[d].progress)
    /\ [][\A d \in DOMAIN pdfs :
            calls'[d] # calls[d] =>
                /\ pdfs[d].status = AnalyzingChunk(idx[d] + 1, Len(chunks[d]))
                /\ ~sess[d].loaded]_vars

C21Witness ==
    \E d \in DOMAIN pdfs :
        /\ pc[d] = "awaiting"
        /\ Len(chunks[d]) = MaxChunks
        /\ idx[d] = MaxChunks - 1
        /\ pdfs[d].status = AnalyzingChunk(MaxChunks, MaxChunks)
        /\ pdfs[d].progress = 50 + ((40 * (MaxChunks - 1)) \div MaxChunks)

(***************************************************************************)
(* C22: when the loop of generate_qa_from_chunks, before chunk i, queries  *)
(* the row and reads canceled, it returns at once: that step and every     *)
(* later step of the run make no provider call, store no pair and leave    *)
(* the row (status canceled, the error of the cancel request, the          *)
(* progress) as it is.                                                     *)
(***************************************************************************)
ReadsCanceled(d) == pc[d] = "loop" /\ idx[d] < Len(chunks[d]) /\ View(d) = Canceled

\* the run of d has returned from process_pdf after reading canceled
Aborted(d) == pc[d] = "done" /\ calls[d] < Len(chunks[d]) /\ exc[d] = ""

C22AbortFrame ==
    [][\A d \in DOMAIN pdfs :
         /\ (ReadsCanceled(d) /\ pc'[d] # pc[d]) =>
               /\ Aborted(d)'
               /\ pdfs[d].status = Canceled
               /\ pdfs[d].error = CancelError
               /\ pdfs'[d] = pdfs[d]
               /\ qa_pairs'[d] = qa_pairs[d]
               /\ calls'[d] = calls[d]
               /\ pending'[d] = <<>>
         /\ Aborted(d) =>
               /\ Aborted(d)'
               /\ pdfs[d].status = Canceled
               /\ pdfs'[d] = pdfs[d]
               /\ qa_pairs'[d] = qa_pairs[d]
               /\ calls'[d] = calls[d]]_vars

C22Witness ==
    \E d \in DOMAIN pdfs :
        /\ Aborted(d)
        /\ Len(chunks[d]) = MaxChunks
        /\ calls[d] = 0
        /\ qa_pairs[d] = <<>>
        /\ lastCancel[d].code = 400
        /\ pdfs[d].status = Canceled
        /\ pdfs[d].error = CancelError
        /\ pdfs[d].progress = 30

(***************************************************************************)
(* C23: every chunk chunk_by_headings emits has content that is not empty  *)
(* after trimming, the final chunk (the text after the last heading match) *)
(* included; the chunks come in document order, and the heading of each is *)
(* the latest heading match before its content, "Introduction" before the  *)
(* first match.  That is: the chunks are the spans between the matches and *)
(* after the last one, trimmed, without the empty ones.                    *)
(* Violated: the final chunk is appended whenever text is left after the   *)
(* last match, without a test of its trimmed content.                      *)
(***************************************************************************)
\* the spans of text outside the heading matches ms, in document order, each
\* trimmed and under the heading match that precedes it
Spans(t, ms) ==
    [j \in 1..(Len(ms) + 1) |->
        [heading |-> IF j = 1 THEN Introduction
                     ELSE Strip(Slice(t, ms[j - 1].start, ms[j - 1].end)),
         content |-> Strip(Slice(t, IF j = 1 THEN 0 ELSE ms[j - 1].end,
                                    IF j > Len(ms) THEN Len(t) ELSE ms[j].start))]]

NonEmptyContent(chunk) == Strip(chunk.content) # <<>>

C23NonEmptyInOrder ==
    (out.fn = "chunk_text" /\ out.params = <<"semantic">>) =>
        /\ \A k \in 1..Len(out.value) : NonEmptyContent(out.value[k])
        /\ out.value = SelectSeq(Spans(text, Headings(text, 0)), NonEmptyContent)

(***************************************************************************)
(* C24: extract_text runs pdfminer first, and runs the OCR if and only if  *)
(* pdfminer's text is empty or has fewer than 100 characters after         *)
(* trimming; then the result is the OCR's output instead of pdfminer's:    *)
(* the page texts in page order, each preceded by the marker               *)
(* "--- Page N ---" with N counting from 1.                                *)
(***************************************************************************)
MarkerLine(n) ==
    <<"-", "-", "-", " ", "P", "a", "g", "e", " ", ToString(n), " ", "-", "-", "-">>

\* where the marker of page n begins in the OCR's output: every page before
\* it takes two newlines, the marker line, two newlines and its text
RECURSIVE MarkerOffset(_, _)
MarkerOffset(ocr, n) ==
    IF n = 1 THEN 0
    ELSE MarkerOffset(ocr, n - 1) + 2 + Len(MarkerLine(n - 1)) + 2 + Len(ocr[n - 1])

OcrRan == \E k \in 1..Len(out.value.ran) : out.value.ran[k] = "ocr"

C24OcrFallback ==
    out.fn = "extract_text" =>
        /\ out.value.ran[1] = "pdfminer"
        /\ OcrRan <=> (text = <<>> \/ Len(Strip(text)) < 100)
        /\ ~OcrRan => out.value.text = text
        /\ OcrRan =>
              LET v == out.value.text
              IN  /\ Len(v) = MarkerOffset(pages, Len(pages) + 1)
                  /\ \A n \in 1..Len(pages) :
                        LET at == MarkerOffset(pages, n)
                        IN  /\ SubSeq(v, at + 1, at + 2) = <<"\n", "\n">>
                            /\ SubSeq(v, at + 3, at + 16) = MarkerLine(n)
                            /\ SubSeq(v, at + 17, at + 18) = <<"\n", "\n">>
                            /\ SubSeq(v, at + 19, at + 18 + Len(pages[n])) = pages[n]

C24Witness ==
    /\ out.fn = "extract_text"
    /\ Len(text) > MinTextLength
    /\ Len(Strip(text)) = MinTextLength - 1
    /\ OcrRan
    /\ \A k \in 1..Len(pages) : pages[k] # <<>>
    /\ pages[1] # pages[Len(pages)]
    /\ out.value.text # text

(***************************************************************************)
(* C25: a cancel request for a document whose stored status is completed,  *)
(* failed or canceled, or for an id that does not exist, is answered with  *)
(* an error (400, or 404), and leaves the status, progress, error and      *)
(* stored pairs of every document as they are.                             *)
(***************************************************************************)
\* the step answers a cancel request for d (every step of the job of d
\* forgets the last answer, no other request touches it)
CancelAnswered(d) == lastCancel'[d] # lastCancel[d] /\ lastCancel'[d] # NoCancel

C25RejectedCancel ==
    [][\A d \in TwoDocs :
         (CancelAnswered(d) /\ (d \notin DOMAIN pdfs \/ pdfs[d].status \in Terminal)) =>
             /\ lastCancel'[d].code = IF d \in DOMAIN pdfs THEN 400 ELSE 404
             /\ pdfs' = pdfs
             /\ qa_pairs' = qa_pairs]_vars

C25Witness ==
    \E d \in DOMAIN pdfs : \E e \in DOMAIN pdfs \ {d} :
        /\ lastCancel[d] = [at |-> Completed, code |-> 400]
        /\ pdfs[d].status = Completed
        /\ qa_pairs[d] # <<>>
        /\ lastCancel[e] = [at |-> Canceled, code |-> 400]
        /\ pdfs[e].status = Canceled
        /\ pdfs[e].error = CancelError

(***************************************************************************)
(* C26: whenever the stored status is completed, for a run with n chunks,  *)
(* exactly n provider calls were made, the k-th of them for chunk index    *)
(* k-1 (so each index 0..n-1 was called once, none skipped, none twice),   *)
(* and the rows of the list returned for each chunk are stored - already   *)
(* in the state in which completed is written.                             *)
(***************************************************************************)
AllChunksDone(d) ==
    LET n == Len(chunks[d])
    IN  /\ calls[d] = n
        /\ Len(returned[d]) = n
        /\ pending[d] = <<>>
        /\ \A j \in 1..n : AddedBeforeRaise(returned[d][j]) = Len(returned[d][j])
        /\ CommittedThrough(d, n)
        /\ \A k \in 1..Len(qa_pairs[d]) : qa_pairs[d][k].chunk \in 0..(n - 1)

C26CompletedAllChunks ==
    /\ [](\A d \in DOMAIN pdfs : pdfs[d].status = Completed => AllChunksDone(d))
    /\ [][\A d \in DOMAIN pdfs :
            /\ (pdfs'[d].status = Completed /\ pdfs[d].status # Completed) =>
                  (AllChunksDone(d) /\ qa_pairs'[d] = qa_pairs[d])
            /\ calls'[d] # calls[d] =>
                  (calls'[d] = calls[d] + 1 /\ idx[d] = calls[d] /\ idx[d] < Len(chunks[d]))]_vars

C26Witness ==
    \E d \in DOMAIN pdfs :
        /\ pdfs[d].status = Completed
        /\ Len(chunks[d]) = MaxChunks
        /\ calls[d] = MaxChunks
        /\ Len(StoredFor(d, 0)) = MaxPairs
        /\ Len(StoredFor(d, MaxChunks - 1)) = 1

(***************************************************************************)
(* C27: chunk_by_paragraphs loses no content: the non-empty paragraphs     *)
(* that are not taken for heading markers are, in their order, the         *)
(* paragraphs of the emitted chunks, each in exactly one chunk - also when *)
(* a heading marker follows an accumulated chunk that is still shorter     *)
(* than the minimum length.                                                *)
(* Violated: a heading marker empties the accumulated chunk without        *)
(* emitting it.                                                            *)
(***************************************************************************)
HeadingMarker(para) == Len(para) < 100 /\ EndsWithPunct(para)

BodyParagraph(para) == para # <<>> /\ ~HeadingMarker(para)

\* the paragraphs of the text, trimmed, without the empty ones and the
\* heading markers
BodyParagraphs(t) ==
    SelectSeq([k \in 1..Len(Paragraphs(t)) |-> Strip(Paragraphs(t)[k])], BodyParagraph)

\* the paragraphs of the contents of the chunks from the k-th on
RECURSIVE EmittedParagraphs(_, _)
EmittedParagraphs(cs, k) ==
    IF k > Len(cs) THEN <<>>
    ELSE Paragraphs(cs[k].content) \o EmittedParagraphs(cs, k + 1)

C27NoContentLost ==
    (out.fn = "chunk_text" /\ out.params = <<"paragraph">>) =>
        EmittedParagraphs(out.value, 1) = BodyParagraphs(text)

====
